---- MODULE Spec2Model ----
(***************************************************************************)
(* Model of tardis/montecarlo/packet_source.py: the packet sources         *)
(* BlackBodySimpleSource and BlackBodySimpleSourceRelativistic, their      *)
(* private generator (self.rng), the process-wide numpy generator          *)
(* (np.random) and the module flag LEGACY_MODE_ENABLED.                    *)
(*                                                                         *)
(* Representation.                                                         *)
(*  - An optional value (None, or an attribute that was never assigned) is *)
(*    the empty tuple <<>>; a present value v is <<v>>.                    *)
(*  - A generator is its state, a WordBits-bit word.  Seeding and stepping *)
(*    are deterministic; a raw draw is the state after one step.           *)
(*  - A uniform variate in [0,1) is the raw draw u, read as u / 2^WordBits.*)
(*  - Frequencies, direction cosines and beta are fixed-point numbers      *)
(*    (thousandths); energies are floating-point numbers with a MantBits-  *)
(*    bit significand, stored as multiples of 2^-GridBits.                 *)
(*  - Units: radius 1e14 cm, time 1e5 s, temperature 1e4 K, frequency THz, *)
(*    luminosity 1e40 erg/s.                                               *)
(***************************************************************************)
EXTENDS Integers, Sequences, FiniteSets, TLC

\* ------------------------------------------------------------------ bounds

\* largest no_of_packets requested
MaxPackets == 3

\* width of a generator word (numpy: 32-bit draws); MAX_SEED_VAL scales with it
WordBits == 2

\* significand width of a floating-point number (float64: 53)
MantBits == 4

\* fraction bits of the fixed-point logarithm
LogFracBits == 10

\* ------------------------------------------------------- program constants

\* default l_samples of create_packet_nus
L_SAMPLES == 1000

\* k_B / h in THz per 1e4 K (2.0837e14 Hz)
KB_OVER_H == 208

\* speed of light in 1e9 cm/s (2.998e10 cm/s)
C_LIGHT == 30

\* 4 pi sigma_sb in 1e40 erg/s per (1e14 cm)^2 (1e4 K)^4, in thousandths
FOUR_PI_SIGMA_SB == 7125

\* pi^4 / 90 in millionths
L_COEF == 1082323

\* -------------------------------------------------------------- optionals

None == <<>>

Some(v) == <<v>>

IsSet(o) == o # <<>>

Val(o) == o[1]

\* --------------------------------------------------------------- numerics

Modulus == 2 ^ WordBits

Abs(x) == IF x < 0 THEN 0 - x ELSE x

RECURSIVE ISqrtIn(_, _, _)
ISqrtIn(v, lo, hi) ==
    IF lo >= hi THEN lo
    ELSE LET mid == (lo + hi + 1) \div 2
         IN IF mid * mid <= v THEN ISqrtIn(v, mid, hi) ELSE ISqrtIn(v, lo, mid - 1)

\* np.sqrt on a non-negative fixed-point argument: floor of the square root
ISqrt(v) == ISqrtIn(v, 0, 2048)

RECURSIVE FloorLog2(_)
FloorLog2(n) == IF n < 2 THEN 0 ELSE 1 + FloorLog2(n \div 2)

RECURSIVE Log2Frac(_, _)
Log2Frac(y, b) ==
    IF b = 0 THEN 0
    ELSE LET y2 == (y * y) \div (2 ^ LogFracBits)
         IN IF y2 >= 2 * (2 ^ LogFracBits)
            THEN 2 ^ (b - 1) + Log2Frac(y2 \div 2, b - 1)
            ELSE Log2Frac(y2, b - 1)

\* log2(n) for an integer n >= 1, with LogFracBits fraction bits
Log2Fix(n) ==
    FloorLog2(n) * (2 ^ LogFracBits)
      + Log2Frac((n * (2 ^ LogFracBits)) \div (2 ^ FloorLog2(n)), LogFracBits)

\* -log(p / Modulus^4) in thousandths, for a product p >= 1 of four raw draws
NegLogMilli(p) ==
    ((4 * WordBits * (2 ^ LogFracBits) - Log2Fix(p)) * 693) \div (2 ^ LogFracBits)

\* the value of -log(0) / l and of anything scaled from it: +inf
PosInf == 0 - 1

\* ---- floating point: multiples of 2^-GridBits with a MantBits-bit significand

GridBits == MantBits + MaxPackets + 1

FloatOne == 2 ^ GridBits

RoundHalfEven(x, y) ==
    LET q == x \div y
        r == x % y
    IN  IF 2 * r < y THEN q
        ELSE IF 2 * r > y THEN q + 1
        ELSE q + (q % 2)

RECURSIVE BinadeBelow(_, _)
\* the k >= 0 with 2^-k <= 1/b < 2^-(k-1), for b >= 1
BinadeBelow(b, k) == IF 2 ^ k >= b THEN k ELSE BinadeBelow(b, k + 1)

\* the float64 quotient 1.0 / b, b >= 1: 1/b rounded to nearest, ties to even
FloatRecip(b) ==
    LET k   == BinadeBelow(b, 0)
        ulp == 2 ^ (GridBits - k - MantBits + 1)
    IN  RoundHalfEven(FloatOne, b * ulp) * ulp

RECURSIVE SumSeq(_)
SumSeq(s) == IF s = <<>> THEN 0 ELSE Head(s) + SumSeq(Tail(s))

\* ------------------------------------------------------------ generators

\* np.random.default_rng(seed): the state a private generator starts from
default_rng(seed) == (7 * seed + 1) % Modulus

\* one step of a private generator (Generator / PCG64)
RngStep(s) == (5 * s + 3) % Modulus

\* np.random.seed(seed): the state of the process-wide generator after seeding
np_random_seed(seed) == (3 * seed + 2) % Modulus

\* one step of the process-wide generator (RandomState / MT19937)
NpStep(s) == (5 * s + 1) % Modulus

\* states np.random.seed(None) may draw from the operating system's entropy
EntropyStates == {1, Modulus - 2}

Step(gen, s) == IF gen = "np" THEN NpStep(s) ELSE RngStep(s)

RECURSIVE Advance(_, _, _)
\* the generator state after k draws
Advance(gen, s, k) == IF k = 0 THEN s ELSE Advance(gen, Step(gen, s), k - 1)

\* random(k) / random((rows, cols)) flattened: the i-th raw draw, in draw order
Draw(gen, s, i) == Advance(gen, s, i)

\* ---------------------------------------------------------- packet seeds

BlackBodySimpleSource == "BlackBodySimpleSource"

BlackBodySimpleSourceRelativistic == "BlackBodySimpleSourceRelativistic"

MAX_SEED_VAL == 2 ^ WordBits - 1

ChoicePopulationMutant(a, raw) == (raw * (a + 1)) \div Modulus

\* Generator.choice(a, size, replace=True) for an int a: indices into
\* np.arange(a), one bounded draw each (multiply-shift of the raw word)
Choice(a, raw) == (raw * a) \div Modulus

\* the outcome of a call: the exception raised ("none" when it returns), the
\* value returned, and the state the call leaves behind
Outcome(exc, val, rng, np, beta) ==
    [exc |-> exc, val |-> val, rng |-> rng, np |-> np, beta |-> beta]

ReseedMutant(self, seed) == IF IsSet(self.rng) THEN self.rng ELSE Some(default_rng(seed))

\* BasePacketSource._reseed: the new self.rng
Reseed(self, seed) == Some(default_rng(seed))

create_packet_seeds(self, np, no_of_packets, seed_offset) ==
    IF ~IsSet(self.base_seed)
    THEN Outcome("TypeError", <<>>, self.rng, np, self.beta)
    ELSE LET rng0 == Reseed(self, Val(self.base_seed) + seed_offset)
         IN  Outcome("none",
                     [i \in 1..no_of_packets |-> Choice(MAX_SEED_VAL, Draw("rng", Val(rng0), i))],
                     Some(Advance("rng", Val(rng0), no_of_packets)), np, self.beta)

\* ------------------------------------------------- BlackBodySimpleSource

RadiiMutant(self, np, no_of_packets) ==
    Outcome("none", [i \in 1..no_of_packets |-> 1], self.rng, np, self.beta)

\* np.ones(n) * self.radius; a float array times None raises for n >= 1
BlackBodySimpleSource_create_packet_radii(self, np, no_of_packets) ==
    IF ~IsSet(self.radius) /\ no_of_packets > 0
    THEN Outcome("TypeError", <<>>, self.rng, np, self.beta)
    ELSE Outcome("none", [i \in 1..no_of_packets |-> Val(self.radius)],
                 self.rng, np, self.beta)

\* l_array[k]: np.cumsum(np.arange(1, l_samples) ** -4), in millionths
RECURSIVE l_array(_)
l_array(k) ==
    IF k = 0 THEN 0
    ELSE l_array(k - 1) + (IF k > 31 THEN 0 ELSE 1000000 \div (k * k * k * k))

RECURSIVE searchsorted(_, _, _)
\* l_array.searchsorted(v): the number of leading elements below v
searchsorted(v, k, l_samples) ==
    IF k > l_samples - 1 THEN l_samples - 1
    ELSE IF l_array(k) >= v THEN k - 1
    ELSE searchsorted(v, k + 1, l_samples)

\* the frequency of one packet from its five variates xis[0..4], at temperature t
PacketNu(xi0, xi1, xi2, xi3, xi4, t) ==
    LET l        == searchsorted((xi0 * L_COEF) \div Modulus, 1, L_SAMPLES) + 1
        xis_prod == xi1 * xi2 * xi3 * xi4
    IN  IF xis_prod = 0 THEN PosInf
        ELSE (((NegLogMilli(xis_prod) \div l) * t) * KB_OVER_H) \div 1000

\* which generator a sampling call site of the base class draws from
SamplingGenerator(legacy) == IF legacy THEN "np" ELSE "rng"

BlackBodySimpleSource_create_packet_nus(self, np, legacy, no_of_packets) ==
    LET gen == SamplingGenerator(legacy)
        n   == no_of_packets
    IN  IF gen = "rng" /\ ~IsSet(self.rng)
        THEN Outcome("AttributeError", <<>>, self.rng, np, self.beta)
        ELSE LET s0   == IF gen = "np" THEN np ELSE Val(self.rng)
                 xis(j) == Draw(gen, s0, j)
                 s1   == Advance(gen, s0, 5 * n)
                 rng1 == IF gen = "np" THEN self.rng ELSE Some(s1)
                 np1  == IF gen = "np" THEN s1 ELSE np
             IN  IF ~IsSet(self.temperature)
                 THEN Outcome("TypeError", <<>>, rng1, np1, self.beta)
                 ELSE Outcome("none",
                              [i \in 1..n |->
                                 PacketNu(xis(i), xis(n + i), xis(2 * n + i),
                                          xis(3 * n + i), xis(4 * n + i),
                                          Val(self.temperature))],
                              rng1, np1, self.beta)

\* np.sqrt(z) for a raw draw z, in thousandths
SqrtMu(z) == ISqrt((z * 1000000) \div Modulus)

BlackBodySimpleSource_create_packet_mus(self, np, legacy, no_of_packets) ==
    LET gen == SamplingGenerator(legacy)
    IN  IF gen = "rng" /\ ~IsSet(self.rng)
        THEN Outcome("AttributeError", <<>>, self.rng, np, self.beta)
        ELSE LET s0 == IF gen = "np" THEN np ELSE Val(self.rng)
                 z(i) == Draw(gen, s0, i)
                 s1 == Advance(gen, s0, no_of_packets)
             IN  Outcome("none", [i \in 1..no_of_packets |-> SqrtMu(z(i))],
                         IF gen = "np" THEN self.rng ELSE Some(s1),
                         IF gen = "np" THEN s1 ELSE np, self.beta)

EnergiesMutant(self, np, no_of_packets) ==
    Outcome("none", [i \in 1..no_of_packets |-> FloatOne], self.rng, np, self.beta)

\* np.ones(n) / n
BlackBodySimpleSource_create_packet_energies(self, np, no_of_packets) ==
    Outcome("none", [i \in 1..no_of_packets |-> FloatRecip(no_of_packets)],
            self.rng, np, self.beta)

\* -------------------------------------- BlackBodySimpleSourceRelativistic

\* -beta + np.sqrt(beta**2 + 2 * beta * z + z) for a raw draw z, in thousandths
AberratedMu(beta, z) ==
    LET zm == (z * 1000) \div Modulus
    IN  ISqrt(beta * beta + 2 * beta * zm + 1000 * zm) - beta

\* the method the relativistic class defines under the name create_packet_nus
BlackBodySimpleSourceRelativistic_create_packet_nus(self, np, no_of_packets) ==
    IF ~IsSet(self.rng)
    THEN Outcome("AttributeError", <<>>, self.rng, np, self.beta)
    ELSE LET s0 == Val(self.rng)
             s1 == Advance("rng", s0, no_of_packets)
         IN  IF ~IsSet(self.beta)
             THEN Outcome("AttributeError", <<>>, Some(s1), np, self.beta)
             ELSE Outcome("none",
                          [i \in 1..no_of_packets |->
                             AberratedMu(Val(self.beta), Draw("rng", s0, i))],
                          Some(s1), np, self.beta)

\* (2 * beta + 1) / (1 - beta**2), in thousandths
static_inner_boundary2cmf_factor(beta) ==
    ((2 * beta + 1000) * 1000000) \div (1000000 - beta * beta)

\* 1.0 / np.sqrt(1 - beta**2), in thousandths
gamma(beta) == 1000000 \div ISqrt(1000000 - beta * beta)

BlackBodySimpleSourceRelativistic_create_packet_energies(self, np, no_of_packets) ==
    IF ~IsSet(self.beta)
    THEN Outcome("AttributeError", <<>>, self.rng, np, self.beta)
    ELSE Outcome("none",
                 [i \in 1..no_of_packets |->
                    (FloatRecip(no_of_packets)
                       * static_inner_boundary2cmf_factor(Val(self.beta)))
                      \div gamma(Val(self.beta))],
                 self.rng, np, self.beta)

\* ------------------------------------------------------ method resolution

IsRelativistic(self) == self.cls = BlackBodySimpleSourceRelativistic

create_packet_radii(self, np, legacy, n) ==
    BlackBodySimpleSource_create_packet_radii(self, np, n)

create_packet_nus(self, np, legacy, n) ==
    IF IsRelativistic(self)
    THEN BlackBodySimpleSourceRelativistic_create_packet_nus(self, np, n)
    ELSE BlackBodySimpleSource_create_packet_nus(self, np, legacy, n)

create_packet_mus(self, np, legacy, n) ==
    BlackBodySimpleSource_create_packet_mus(self, np, legacy, n)

create_packet_energies(self, np, legacy, n) ==
    IF IsRelativistic(self)
    THEN BlackBodySimpleSourceRelativistic_create_packet_energies(self, np, n)
    ELSE BlackBodySimpleSource_create_packet_energies(self, np, n)

\* the source as a call that ended in outcome o leaves it
After(self, o) == [self EXCEPT !.rng = o.rng, !.beta = o.beta]

\* BasePacketSource.create_packets: the four calls in order; an exception in
\* one of them ends the call with what the earlier ones did to the generators
BasePacketSource_create_packets(self, np, legacy, n) ==
    LET radii == create_packet_radii(self, np, legacy, n)
    IN  IF radii.exc # "none" THEN radii
        ELSE
        LET nus == create_packet_nus(After(self, radii), radii.np, legacy, n)
        IN  IF nus.exc # "none" THEN nus
            ELSE
            LET mus == create_packet_mus(After(self, nus), nus.np, legacy, n)
            IN  IF mus.exc # "none" THEN mus
                ELSE
                LET energies ==
                      create_packet_energies(After(self, mus), mus.np, legacy, n)
                IN  IF energies.exc # "none" THEN energies
                    ELSE Outcome("none",
                                 <<radii.val, nus.val, mus.val, energies.val>>,
                                 energies.rng, energies.np, energies.beta)

UnsetCheckMutant(self) == ~IsSet(self.radius)

\* the guard of BlackBodySimpleSource.create_packets
RadiusOrTemperatureUnset(self) == ~IsSet(self.radius) \/ ~IsSet(self.temperature)

BlackBodySimpleSource_create_packets(self, np, legacy, n) ==
    IF RadiusOrTemperatureUnset(self)
    THEN Outcome("ValueError", <<>>, self.rng, np, self.beta)
    ELSE BasePacketSource_create_packets(self, np, legacy, n)

\* the guard of BlackBodySimpleSourceRelativistic.create_packets
RadiusOrTimeUnset(self) == ~IsSet(self.radius) \/ ~IsSet(self.time_explosion)

\* ((self.radius / self.time_explosion) / const.c).to(""), in thousandths
Beta(radius, time_explosion) == (radius * 1000) \div (time_explosion * C_LIGHT)

BlackBodySimpleSourceRelativistic_create_packets(self, np, legacy, n) ==
    IF RadiusOrTimeUnset(self)
    THEN Outcome("ValueError", <<>>, self.rng, np, self.beta)
    ELSE BlackBodySimpleSource_create_packets(
             [self EXCEPT !.beta = Some(Beta(Val(self.radius), Val(self.time_explosion)))],
             np, legacy, n)

create_packets(self, np, legacy, n) ==
    IF IsRelativistic(self)
    THEN BlackBodySimpleSourceRelativistic_create_packets(self, np, legacy, n)
    ELSE BlackBodySimpleSource_create_packets(self, np, legacy, n)

\* set_temperature_from_luminosity: (L / (4 pi r^2 sigma_sb)) ** 0.25
TemperatureFromLuminosity(luminosity, radius) ==
    ISqrt(ISqrt((luminosity * 1000) \div (FOUR_PI_SIGMA_SB * radius * radius)))

\* BasePacketSource.__init__: the states np.random.seed may leave the
\* process-wide generator in
BasePacketSource_init(legacy, base_seed, legacy_second_seed) ==
    IF legacy /\ IsSet(legacy_second_seed)
    THEN {np_random_seed(Val(legacy_second_seed))}
    ELSE IF IsSet(base_seed) THEN {np_random_seed(Val(base_seed))}
    ELSE EntropyStates

\* ------------------------------------------------------------------ state

VARIABLES
    LEGACY_MODE_ENABLED,  \* montecarlo_configuration.LEGACY_MODE_ENABLED
    np_random,            \* state of the process-wide generator np.random
    self,                 \* the packet source: its class and attributes
    last                  \* the last call on the source and how it ended

vars == <<LEGACY_MODE_ENABLED, np_random, self, last>>

\* ----------------------------------------------------------------- inputs

Classes == {BlackBodySimpleSource, BlackBodySimpleSourceRelativistic}

Radii == {3}

Temperatures == {1}

Times == {1}

BaseSeeds == {0, 1}

LegacySecondSeeds == {2}

SeedOffsets == {0, 1}

Luminosities == {260}

Optional(S) == {None} \cup {Some(v) : v \in S}

PacketCounts == 0..MaxPackets

\* a call: the method, no_of_packets, seed_offset, the exception raised
\* ("none" when it returns) and the value returned
Call(op, n, seed_offset, exc, val) ==
    [op |-> op, n |-> n, seed_offset |-> seed_offset, exc |-> exc, val |-> val]

\* a freshly constructed source: __init__ of the class and of its bases
\* assigns the physical parameters and base_seed; rng and beta are not assigned
NewSource(cls, radius, temperature, time_explosion, base_seed) ==
    [cls |-> cls, radius |-> radius, temperature |-> temperature,
     time_explosion |-> time_explosion, base_seed |-> base_seed,
     rng |-> None, beta |-> None]

ConstructorArguments ==
    { a \in [cls : Classes, radius : Optional(Radii),
             temperature : Optional(Temperatures),
             time_explosion : Optional(Times),
             base_seed : Optional(BaseSeeds),
             legacy_second_seed : Optional(LegacySecondSeeds)] :
        a.cls = BlackBodySimpleSource => a.time_explosion = None }

Init ==
    /\ LEGACY_MODE_ENABLED \in BOOLEAN
    /\ \E a \in ConstructorArguments :
          /\ self = NewSource(a.cls, a.radius, a.temperature, a.time_explosion,
                              a.base_seed)
          /\ np_random \in BasePacketSource_init(LEGACY_MODE_ENABLED, a.base_seed,
                                                 a.legacy_second_seed)
    /\ last = Call("__init__", 0, 0, "none", <<>>)

\* ---------------------------------------------------------------- actions

\* a call that ended in outcome o
Returns(op, n, seed_offset, o) ==
    /\ self' = After(self, o)
    /\ np_random' = o.np
    /\ last' = Call(op, n, seed_offset, o.exc, o.val)

\* a new source is constructed in place of the old one
Construct ==
    /\ \E a \in ConstructorArguments :
          /\ self' = NewSource(a.cls, a.radius, a.temperature, a.time_explosion,
                               a.base_seed)
          /\ np_random' \in BasePacketSource_init(LEGACY_MODE_ENABLED, a.base_seed,
                                                  a.legacy_second_seed)
    /\ last' = Call("__init__", 0, 0, "none", <<>>)
    /\ UNCHANGED LEGACY_MODE_ENABLED

CreatePacketSeeds ==
    \E n \in PacketCounts, seed_offset \in SeedOffsets :
        /\ Returns("create_packet_seeds", n, seed_offset,
                   create_packet_seeds(self, np_random, n, seed_offset))
        /\ UNCHANGED LEGACY_MODE_ENABLED

CreatePackets ==
    \E n \in PacketCounts :
        /\ Returns("create_packets", n, 0,
                   create_packets(self, np_random, LEGACY_MODE_ENABLED, n))
        /\ UNCHANGED LEGACY_MODE_ENABLED

CreatePacketRadii ==
    \E n \in PacketCounts :
        /\ Returns("create_packet_radii", n, 0,
                   create_packet_radii(self, np_random, LEGACY_MODE_ENABLED, n))
        /\ UNCHANGED LEGACY_MODE_ENABLED

CreatePacketNus ==
    \E n \in PacketCounts :
        /\ Returns("create_packet_nus", n, 0,
                   create_packet_nus(self, np_random, LEGACY_MODE_ENABLED, n))
        /\ UNCHANGED LEGACY_MODE_ENABLED

CreatePacketMus ==
    \E n \in PacketCounts :
        /\ Returns("create_packet_mus", n, 0,
                   create_packet_mus(self, np_random, LEGACY_MODE_ENABLED, n))
        /\ UNCHANGED LEGACY_MODE_ENABLED

CreatePacketEnergies ==
    \E n \in PacketCounts :
        /\ Returns("create_packet_energies", n, 0,
                   create_packet_energies(self, np_random, LEGACY_MODE_ENABLED, n))
        /\ UNCHANGED LEGACY_MODE_ENABLED

\* set_state_from_model: radius and temperature (and, for the relativistic
\* class, time_explosion) are assigned from the model
SetStateFromModel ==
    \E radius \in Radii, temperature \in Temperatures, time_explosion \in Times :
        /\ self' = [self EXCEPT
                      !.radius = Some(radius),
                      !.temperature = Some(temperature),
                      !.time_explosion =
                          IF IsRelativistic(self) THEN Some(time_explosion) ELSE @]
        /\ last' = Call("set_state_from_model", 0, 0, "none", <<>>)
        /\ UNCHANGED <<LEGACY_MODE_ENABLED, np_random>>

SetTemperatureFromLuminosity ==
    \E luminosity \in Luminosities :
        /\ IF IsSet(self.radius)
           THEN /\ self' = [self EXCEPT !.temperature =
                              Some(TemperatureFromLuminosity(luminosity, Val(self.radius)))]
                /\ last' = Call("set_temperature_from_luminosity", 0, 0, "none", <<>>)
           ELSE /\ self' = self
                /\ last' = Call("set_temperature_from_luminosity", 0, 0, "TypeError", <<>>)
        /\ UNCHANGED <<LEGACY_MODE_ENABLED, np_random>>

Next ==
    \/ Construct
    \/ CreatePacketSeeds
    \/ CreatePackets
    \/ CreatePacketRadii
    \/ CreatePacketNus
    \/ CreatePacketMus
    \/ CreatePacketEnergies
    \/ SetStateFromModel
    \/ SetTemperatureFromLuminosity

Spec == Init /\ [][Next]_vars

\* ----------------------------------------------------------------- claims

\* a physical parameter create_packets requires is None
RequiredUnset(src) ==
    \/ ~IsSet(src.radius)
    \/ ~IsSet(src.temperature)
    \/ (IsRelativistic(src) /\ ~IsSet(src.time_explosion))

ReturnedBy(op) == last.op = op /\ last.exc = "none"

\* C1: in both classes, create_packets called while radius or temperature (or,
\* for the relativistic class, time_explosion) is None raises ValueError,
\* returns nothing and draws nothing: the private generator and the
\* process-wide generator are left in the state they were in before the call.
C1_UnsetStateFailsBeforeAnyDraw ==
    [][(last'.op = "create_packets" /\ RequiredUnset(self))
         => /\ last'.exc = "ValueError"
            /\ last'.val = <<>>
            /\ self'.rng = self.rng
            /\ np_random' = np_random]_vars

\* C1 witness: a relativistic source with radius and time_explosion set,
\* temperature None and a private generator to draw from has been asked for
\* packets and raised ValueError.
C1_Witness ==
    /\ last.op = "create_packets"
    /\ last.exc = "ValueError"
    /\ IsRelativistic(self)
    /\ IsSet(self.radius) /\ IsSet(self.time_explosion) /\ ~IsSet(self.temperature)
    /\ IsSet(self.rng)
    /\ last.n = MaxPackets

\* C2 (as claimed): for the same radius, temperature and generator state, the
\* radii and the frequencies returned by the relativistic create_packets equal
\* those returned by BlackBodySimpleSource.create_packets.
C2_RelativisticReusesBaseNus ==
    [][(last'.op = "create_packets" /\ last'.exc = "none" /\ IsRelativistic(self)
          /\ ~LEGACY_MODE_ENABLED)
         => LET base == BlackBodySimpleSource_create_packets(
                            [self EXCEPT !.cls = BlackBodySimpleSource],
                            np_random, LEGACY_MODE_ENABLED, last'.n)
            IN  /\ base.exc = "none"
                /\ last'.val[1] = base.val[1]
                /\ last'.val[2] = base.val[2]]_vars

\* C3 (as claimed): every direction cosine returned by the relativistic
\* create_packets is -beta + sqrt(beta^2 + 2 beta z + z) for a uniform draw z.
C3_RelativisticMusAreAberrated ==
    (ReturnedBy("create_packets") /\ IsRelativistic(self))
      => \A i \in 1..last.n :
            \E z \in 0..(Modulus - 1) :
                last.val[3][i] = AberratedMu(Val(self.beta), z)

\* the seeds a freshly constructed source with the given base seed returns
\* for seed_offset 0
FreshSourceSeeds(base_seed, n) ==
    create_packet_seeds(
        NewSource(BlackBodySimpleSource, None, None, None, Some(base_seed)),
        0, n, 0).val

\* C4: with an integer base_seed, create_packet_seeds(n, seed_offset) returns,
\* whatever the source went through before (its class, its parameters, earlier
\* calls that left the private generator anywhere), the sequence a freshly
\* constructed source seeded with base_seed + seed_offset returns for n: the
\* result is a function of (base_seed + seed_offset, n) alone.
C4_SeedsDependOnSeedSumAndCountOnly ==
    [][(last'.op = "create_packet_seeds" /\ IsSet(self.base_seed))
         => /\ last'.exc = "none"
            /\ last'.val = FreshSourceSeeds(Val(self.base_seed) + last'.seed_offset,
                                            last'.n)]_vars

\* C4 witness: seeds were drawn with a non-zero offset on a source that had
\* generated packets before (beta is assigned by create_packets only).
C4_Witness ==
    /\ ReturnedBy("create_packet_seeds")
    /\ last.n = MaxPackets
    /\ last.seed_offset = 1
    /\ IsSet(self.beta)

\* the energies of the last call, when it returned packets or energies
LastEnergies == IF last.op = "create_packets" THEN last.val[4] ELSE last.val

ReturnedBaseEnergies ==
    /\ ReturnedBy("create_packets") \/ ReturnedBy("create_packet_energies")
    /\ ~IsRelativistic(self)
    /\ last.n >= 1

IsPowerOfTwo(n) == \E k \in 0..n : 2 ^ k = n

\* C5 (as claimed): the energies of a non-relativistic batch of n >= 1 packets
\* are strictly positive, all equal to 1 / n, and sum to exactly 1.
C5_EnergiesSumToExactlyOne ==
    ReturnedBaseEnergies
      => /\ \A i \in 1..last.n : LastEnergies[i] > 0
         /\ \A i \in 1..last.n : LastEnergies[i] * last.n = FloatOne
         /\ SumSeq(LastEnergies) = FloatOne

\* C5 (amended): the energies of a non-relativistic batch of n >= 1 packets are
\* strictly positive and all the same number, and their sum is 1 to within one
\* unit roundoff (2^-MantBits); it is exactly 1 if and only if n is a power of
\* two.
C5_EnergiesSumToOneWithinRounding ==
    ReturnedBaseEnergies
      => /\ Len(LastEnergies) = last.n
         /\ \A i \in 1..last.n : LastEnergies[i] > 0
         /\ \A i \in 1..last.n : LastEnergies[i] = LastEnergies[1]
         /\ Abs(SumSeq(LastEnergies) - FloatOne) * (2 ^ MantBits) <= FloatOne
         /\ IsPowerOfTwo(last.n) <=> SumSeq(LastEnergies) = FloatOne

\* C5 witness: create_packets returned a non-relativistic batch of three
\* packets whose energies do not sum to exactly 1.
C5_Witness ==
    /\ ReturnedBy("create_packets")
    /\ ~IsRelativistic(self)
    /\ last.n = 3
    /\ SumSeq(last.val[4]) # FloatOne

\* every physical parameter create_packets requires is set
RequiredSet(src) == ~RequiredUnset(src)

\* C6 (as claimed): with all required parameters set, create_packets(n), for
\* every n >= 0 and both classes, returns four sequences of length n, the radii
\* all equal to the configured radius; create_packets(0) does not fail.
C6_CreatePacketsReturnsFourSequences ==
    (last.op = "create_packets" /\ RequiredSet(self))
      => /\ last.exc = "none"
         /\ Len(last.val) = 4
         /\ \A j \in 1..4 : Len(last.val[j]) = last.n
         /\ \A i \in 1..last.n : last.val[1][i] = Val(self.radius)

\* C7 (as claimed): the seeds lie in the inclusive range [0, MAX_SEED_VAL] and
\* MAX_SEED_VAL itself is a possible value.  The seed is a non-decreasing
\* function of the generator word, so MAX_SEED_VAL is possible exactly when the
\* largest word yields it; the last word drawn is the state the generator is
\* left in.
C7_SeedsCoverInclusiveRange ==
    ReturnedBy("create_packet_seeds")
      => /\ Len(last.val) = last.n
         /\ \A i \in 1..last.n : last.val[i] \in 0..MAX_SEED_VAL
         /\ (last.n >= 1 /\ Val(self.rng) = Modulus - 1)
               => last.val[last.n] = MAX_SEED_VAL

\* C7 (amended): create_packet_seeds returns exactly n integers of the
\* half-open range [0, MAX_SEED_VAL): every seed s satisfies
\* 0 <= s <= MAX_SEED_VAL - 1, and the largest generator word yields
\* MAX_SEED_VAL - 1, so MAX_SEED_VAL itself is never returned.
C7_SeedsCoverHalfOpenRange ==
    ReturnedBy("create_packet_seeds")
      => /\ Len(last.val) = last.n
         /\ \A i \in 1..last.n : last.val[i] \in 0..(MAX_SEED_VAL - 1)
         /\ (last.n >= 1 /\ Val(self.rng) = Modulus - 1)
               => last.val[last.n] = MAX_SEED_VAL - 1

\* C7 witness: a returned seed attains the top of the half-open range.
C7_Witness ==
    /\ ReturnedBy("create_packet_seeds")
    /\ \E i \in 1..last.n : last.val[i] = MAX_SEED_VAL - 1

\* C8 (as claimed): with legacy mode disabled no operation of a source,
\* construction included, changes the state of the process-wide generator.
C8_ProcessWideGeneratorUntouched ==
    [][~LEGACY_MODE_ENABLED => np_random' = np_random]_vars

SamplingOps == {"create_packet_nus", "create_packet_mus", "create_packets"}

\* C9 (as claimed): in both classes, a call of create_packet_nus,
\* create_packet_mus or create_packets leaves the private generator as it was
\* when legacy mode is enabled, and leaves the process-wide generator as it was
\* when legacy mode is disabled.
C9_LegacyFlagSelectsTheGenerator ==
    [][last'.op \in SamplingOps
         => IF LEGACY_MODE_ENABLED
            THEN self'.rng = self.rng
            ELSE np_random' = np_random]_vars

\* C10 (as claimed): with legacy mode disabled, a source constructed with an
\* integer base_seed and with its required parameters set returns packets
\* from create_packets after any sequence of earlier operations, including
\* none.
C10_CreatePacketsNeverLacksAGenerator ==
    (/\ ~LEGACY_MODE_ENABLED
     /\ last.op = "create_packets"
     /\ IsSet(self.base_seed)
     /\ RequiredSet(self))
      => last.exc = "none"

====
